---------------------------- MODULE Spec2Model ----------------------------
(***************************************************************************)
(* The polls application: the Question and Choice tables, the three read  *)
(* views (IndexView, DetailView, ResultsView) and the vote view of        *)
(* polls/views.py, driven by the data set-up steps of polls/tests.py.     *)
(***************************************************************************)
EXTENDS Integers, Sequences, FiniteSets, TLC

(* Bounds of the model. *)
MaxId == 2
MaxTime == 1
MaxVotes == 2
ListExtra == 3

\* The clients whose vote requests may interleave.
Clients == {1, 2}

QuestionIds == 1..MaxId
ChoiceIds == 1..MaxId
Times == 0..MaxTime

VARIABLES
    now,        \* timezone.now()
    Question,   \* the Question table: id -> [question_text, pub_date]
    Choice,     \* the Choice table: id -> [question, choice_text, votes]
    request,    \* the request handled by the last step (NoRequest after a data step)
    response,   \* the answer to it
    before,     \* the two tables as they were when that request arrived
    inflight    \* per client, a vote request that is handled in several steps

vars == <<now, Question, Choice, request, response, before, inflight>>

-----------------------------------------------------------------------------
(* Strings are sequences of characters.  "sup2" stands for U+00B2, a       *)
(* character for which str.isdigit() is true and int() raises ValueError.  *)

DecimalChars == <<"0", "1", "2", "3", "4", "5", "6", "7", "8", "9">>

IsDecimalChar(c) == \E i \in 1..Len(DecimalChars) : DecimalChars[i] = c

DigitValue(c) == (CHOOSE i \in 1..Len(DecimalChars) : DecimalChars[i] = c) - 1

OtherDigitChars == {"sup2"}

\* str.isdigit(): non-empty and every character is a digit character.
isdigit(s) ==
    /\ Len(s) > 0
    /\ \A i \in 1..Len(s) : IsDecimalChar(s[i]) \/ s[i] \in OtherDigitChars

\* int(s) raises ValueError unless every character is a decimal digit
\* (signs, blanks and underscores never pass the isdigit() guard).
IntRaises(s) == Len(s) = 0 \/ \E i \in 1..Len(s) : ~IsDecimalChar(s[i])

RECURSIVE int(_)
int(s) ==
    IF Len(s) = 0 THEN 0
    ELSE 10 * int(SubSeq(s, 1, Len(s) - 1)) + DigitValue(s[Len(s)])

\* str(n) for n >= 0, as the test client encodes {'choice': choice_id}.
RECURSIVE str(_)
str(n) ==
    IF n < 10 THEN <<DecimalChars[n + 1]>>
    ELSE str(n \div 10) \o <<DecimalChars[(n % 10) + 1]>>

-----------------------------------------------------------------------------
(* Requests and responses. *)

NoPost == [f \in {} |-> <<>>]

PostChoice(s) == [f \in {"choice"} |-> s]

\* The values of the `choice` field the requests are drawn from.
ChoiceValues ==
    {str(n) : n \in 0..(MaxId + 1)}
        \cup {<<>>, <<"a">>, <<"1", "a">>, <<"0", "1">>, <<"sup2">>, <<"-", "1">>}

PostBodies == {NoPost} \cup {PostChoice(s) : s \in ChoiceValues}

NoRequest == [view |-> "none", question_id |-> 0, POST |-> NoPost]

NoResponse ==
    [status |-> 0, template |-> "", question |-> 0, latest_question_list |-> <<>>,
     error_message |-> FALSE, location |-> 0]

Http404 == [NoResponse EXCEPT !.status = 404]

HttpResponseBadRequest == [NoResponse EXCEPT !.status = 400]

\* An exception no handler catches: the framework answers 500.
ServerError == [NoResponse EXCEPT !.status = 500]

Render(template, q) ==
    [NoResponse EXCEPT !.status = 200, !.template = template, !.question = q]

\* HttpResponseRedirect(reverse('polls:results', args=(q,)))
HttpResponseRedirect(q) == [NoResponse EXCEPT !.status = 302, !.location = q]

-----------------------------------------------------------------------------
(* The tables. *)

EmptyTable == [id \in {} |-> 0]

\* Mutant of choice_set: the choice is looked up among all choices.
choice_set_AllChoices(q) == DOMAIN Choice

choice_set(q) == {c \in DOMAIN Choice : Choice[c].question = q}

RECURSIVE SumVotes(_)
SumVotes(S) ==
    IF S = {} THEN 0
    ELSE LET c == CHOOSE x \in S : TRUE IN Choice[c].votes + SumVotes(S \ {c})

TotalVotes == SumVotes(DOMAIN Choice)

Tallies(table) == [c \in DOMAIN table |-> table[c].votes]

NoSnapshot == [Question |-> EmptyTable, Choice |-> EmptyTable]

Snapshot == [Question |-> Question, Choice |-> Choice]

\* No request is being answered: requests are handled one at a time.
Idle == request = NoRequest

NoFlight ==
    [pc |-> "idle", question_id |-> 0, choice_id |-> 0,
     selected_choice |-> [question |-> 0, choice_text |-> "", votes |-> 0],
     response |-> NoResponse]

\* The data changes between two requests.
DataStep ==
    /\ Idle
    /\ UNCHANGED <<request, response, before, inflight>>

Init ==
    /\ now \in Times
    /\ Question = EmptyTable
    /\ Choice = EmptyTable
    /\ request = NoRequest
    /\ response = NoResponse
    /\ before = NoSnapshot
    /\ inflight = [r \in Clients |-> NoFlight]

\* create_question(question_text, days): pub_date = now + days
CreateQuestion(q, pub_date) ==
    /\ q \notin DOMAIN Question
    /\ Question' = [id \in DOMAIN Question \cup {q} |->
                      IF id = q THEN [question_text |-> "Question", pub_date |-> pub_date]
                      ELSE Question[id]]
    /\ DataStep
    /\ UNCHANGED <<now, Choice>>

\* Choice(question=q, choice_text=..., votes=0).save()
CreateChoice(c, q) ==
    /\ c \notin DOMAIN Choice
    /\ q \in DOMAIN Question
    /\ Choice' = [id \in DOMAIN Choice \cup {c} |->
                    IF id = c THEN [question |-> q, choice_text |-> "Choice", votes |-> 0]
                    ELSE Choice[id]]
    /\ DataStep
    /\ UNCHANGED <<now, Question>>

\* A Choice row is deleted.
DeleteChoice(c) ==
    /\ c \in DOMAIN Choice
    /\ Choice' = [id \in DOMAIN Choice \ {c} |-> Choice[id]]
    /\ DataStep
    /\ UNCHANGED <<now, Question>>

\* A Question row is deleted, and with it the choices it owns.
DeleteQuestion(q) ==
    /\ q \in DOMAIN Question
    /\ Question' = [id \in DOMAIN Question \ {q} |-> Question[id]]
    /\ Choice' = [id \in DOMAIN Choice \ choice_set(q) |-> Choice[id]]
    /\ DataStep
    /\ UNCHANGED now

\* Time passes between two requests.
Tick ==
    /\ Idle
    /\ now < MaxTime
    /\ now' = now + 1
    /\ UNCHANGED <<Question, Choice, request, response, before, inflight>>

\* The response has gone to the client; the next request can be handled.
Return ==
    /\ ~Idle
    /\ request' = NoRequest
    /\ response' = NoResponse
    /\ before' = NoSnapshot
    /\ UNCHANGED <<now, Question, Choice, inflight>>

-----------------------------------------------------------------------------
(* The read views. *)

Get(view, question_id) == [view |-> view, question_id |-> question_id, POST |-> NoPost]

\* The loop of get_queryset: every question of the query set that has no
\* choice is excluded from it.
ExcludeChoiceless(query_set) == query_set \ {q \in query_set : choice_set(q) = {}}

\* Question.objects.filter(pub_date__lte=timezone.now())
PublishedQuestions == {q \in DOMAIN Question : Question[q].pub_date <= now}

\* Mutant of IndexView_get_queryset: the questions without a choice stay.
IndexView_get_queryset_NoExclude == PublishedQuestions

IndexView_get_queryset == ExcludeChoiceless(PublishedQuestions)

\* Mutant of DetailView_get_queryset: the pub_date is not looked at.
DetailView_get_queryset_NoFilter == ExcludeChoiceless(DOMAIN Question)

DetailView_get_queryset == ExcludeChoiceless(PublishedQuestions)

ResultsView_get_queryset == ExcludeChoiceless(PublishedQuestions)

\* order_by('-pub_date'): every ordering of the set by pub_date descending
\* (the order of questions with equal pub_date is the database's choice).
RECURSIVE OrderByPubDateDesc(_)
OrderByPubDateDesc(S) ==
    IF S = {} THEN {<<>>}
    ELSE UNION {{<<q>> \o tail : tail \in OrderByPubDateDesc(S \ {q})} :
                q \in {x \in S : \A y \in S : Question[y].pub_date <= Question[x].pub_date}}

ListCap == 5

\* Mutant of Slice: the list is not cut.
Slice_Uncut(lst) == lst

\* [:5]
Slice(lst) == SubSeq(lst, 1, IF Len(lst) < ListCap THEN Len(lst) ELSE ListCap)

IndexView ==
    /\ Idle
    /\ \E lst \in OrderByPubDateDesc(IndexView_get_queryset) :
           response' = [Render("polls/index.html", 0) EXCEPT
                            !.latest_question_list = Slice(lst)]
    /\ request' = Get("index", 0)
    /\ before' = Snapshot
    /\ UNCHANGED <<now, Question, Choice, inflight>>

DetailView(question_id) ==
    /\ Idle
    /\ response' = IF question_id \in DetailView_get_queryset
                   THEN Render("polls/detail.html", question_id)
                   ELSE Http404
    /\ request' = Get("detail", question_id)
    /\ before' = Snapshot
    /\ UNCHANGED <<now, Question, Choice, inflight>>

ResultsView(question_id) ==
    /\ Idle
    /\ response' = IF question_id \in ResultsView_get_queryset
                   THEN Render("polls/results.html", question_id)
                   ELSE Http404
    /\ request' = Get("results", question_id)
    /\ before' = Snapshot
    /\ UNCHANGED <<now, Question, Choice, inflight>>

-----------------------------------------------------------------------------
(* The vote view. *)

\* Mutants of Increment: the tally is not changed; the tally is raised by 2.
Increment_Forgotten(selected_choice) == selected_choice

Increment_Twice(selected_choice) == [selected_choice EXCEPT !.votes = @ + 2]

\* selected_choice.votes += 1
Increment(selected_choice) == [selected_choice EXCEPT !.votes = @ + 1]

\* Mutant of Save: every choice of the question is written.
Save_WholeChoiceSet(choice_id, selected_choice) ==
    [c \in DOMAIN Choice |->
        IF Choice[c].question = selected_choice.question
        THEN [Choice[c] EXCEPT !.votes = selected_choice.votes]
        ELSE Choice[c]]

\* Mutant of Save: the database adds 1 to the tally the row holds.
Save_AtomicIncrement(choice_id, selected_choice) ==
    [Choice EXCEPT ![choice_id].votes = @ + 1]

\* selected_choice.save(): the row is written from the object in memory.
Save(choice_id, selected_choice) == [Choice EXCEPT ![choice_id] = selected_choice]

\* vote(): the answer, from the question, the time and the request body.
VoteAnswer(question_id, POST) ==
    IF question_id \notin DOMAIN Question THEN Http404
    ELSE IF now < Question[question_id].pub_date THEN Http404
    ELSE IF "choice" \in DOMAIN POST /\ isdigit(POST.choice) THEN
        IF IntRaises(POST.choice) THEN ServerError
        ELSE IF int(POST.choice) \notin choice_set(question_id)
        THEN [Render("polls/detail.html", question_id) EXCEPT !.error_message = TRUE]
        ELSE HttpResponseRedirect(question_id)
    ELSE HttpResponseBadRequest

vote(question_id, POST) ==
    LET answer == VoteAnswer(question_id, POST) IN
    /\ Idle
    /\ request' = [view |-> "vote", question_id |-> question_id, POST |-> POST]
    /\ response' = answer
    /\ before' = Snapshot
    /\ IF answer.status = 302
       THEN LET choice_id == int(POST.choice) IN
            /\ TotalVotes < MaxVotes
            /\ Choice' = Save(choice_id, Increment(Choice[choice_id]))
       ELSE UNCHANGED Choice
    /\ UNCHANGED <<now, Question, inflight>>

Next ==
    \/ \E q \in QuestionIds, d \in Times : CreateQuestion(q, d)
    \/ \E c \in ChoiceIds, q \in QuestionIds : CreateChoice(c, q)
    \/ \E c \in ChoiceIds : DeleteChoice(c)
    \/ \E q \in QuestionIds : DeleteQuestion(q)
    \/ Tick
    \/ Return
    \/ IndexView
    \/ \E q \in QuestionIds : DetailView(q)
    \/ \E q \in QuestionIds : ResultsView(q)
    \/ \E q \in QuestionIds, POST \in PostBodies : vote(q, POST)

Spec == Init /\ [][Next]_vars

-----------------------------------------------------------------------------
(* The list view over more questions than it lists.  The data is the set-  *)
(* up of test_two_past_questions_both_with_a_choice, repeated: every        *)
(* question is created with one choice; the pub_dates are a sample of the  *)
(* orders in which ids and dates can lie (distinct when step and modulus   *)
(* are coprime, with ties otherwise).                                      *)

ListQuestions == ListCap + ListExtra

ListIds == 1..ListQuestions

ListTimes == 0..ListQuestions

InitIndex ==
    /\ now \in ListTimes
    /\ \E step \in ListIds, shift \in ListTimes :
           Question = [id \in ListIds |->
                          [question_text |-> "Question",
                           pub_date |-> (id * step + shift) % (ListQuestions + 1)]]
    /\ Choice = [c \in ListIds |-> [question |-> c, choice_text |-> "Choice", votes |-> 0]]
    /\ request = NoRequest
    /\ response = NoResponse
    /\ before = NoSnapshot
    /\ inflight = [r \in Clients |-> NoFlight]

NextIndex ==
    \/ \E c \in ListIds : DeleteChoice(c)
    \/ IndexView
    \/ Return

SpecIndex == InitIndex /\ [][NextIndex]_vars

-----------------------------------------------------------------------------
(* Two clients whose vote requests interleave: the view reads the selected *)
(* choice in one database query and writes it back in another.  The data   *)
(* is that of create_question_with_choices: one question and its choices,  *)
(* all tallies 0.                                                          *)

InitRace ==
    /\ now \in Times
    /\ \E pub_date \in Times :
           Question = [id \in {1} |-> [question_text |-> "Question", pub_date |-> pub_date]]
    /\ Choice = [c \in ChoiceIds |-> [question |-> 1, choice_text |-> "Choice", votes |-> 0]]
    /\ request = NoRequest
    /\ response = NoResponse
    /\ before = NoSnapshot
    /\ inflight = [r \in Clients |-> NoFlight]

\* vote() up to selected_choice = question.choice_set.get(pk=choice_id)
VoteBegin(r, question_id, POST) ==
    LET answer == VoteAnswer(question_id, POST) IN
    /\ inflight[r].pc = "idle"
    /\ IF answer.status = 302
       THEN LET choice_id == int(POST.choice) IN
            /\ Choice[choice_id].votes < MaxVotes
            /\ inflight' = [inflight EXCEPT ![r] =
                   [pc |-> "selected", question_id |-> question_id,
                    choice_id |-> choice_id, selected_choice |-> Choice[choice_id],
                    response |-> NoResponse]]
       ELSE inflight' = [inflight EXCEPT ![r] =
                   [NoFlight EXCEPT !.pc = "done", !.question_id = question_id,
                                    !.response = answer]]
    /\ UNCHANGED <<now, Question, Choice, request, response, before>>

\* vote() from selected_choice.votes += 1 to the redirect
VoteSave(r) ==
    /\ inflight[r].pc = "selected"
    /\ Choice' = Save(inflight[r].choice_id, Increment(inflight[r].selected_choice))
    /\ inflight' = [inflight EXCEPT ![r].pc = "done",
                                    ![r].response = HttpResponseRedirect(inflight[r].question_id)]
    /\ UNCHANGED <<now, Question, request, response, before>>

\* The response has gone to the client.
VoteReturn(r) ==
    /\ inflight[r].pc = "done"
    /\ inflight' = [inflight EXCEPT ![r] = NoFlight]
    /\ UNCHANGED <<now, Question, Choice, request, response, before>>

NextRace ==
    \/ \E r \in Clients, q \in QuestionIds, POST \in PostBodies : VoteBegin(r, q, POST)
    \/ \E r \in Clients : VoteSave(r)
    \/ \E r \in Clients : VoteReturn(r)

SpecRace == InitRace /\ [][NextRace]_vars

-----------------------------------------------------------------------------
(* What the claims speak of: the request just answered, and the tables as  *)
(* it found them.                                                          *)

ChoicesBefore(q) == {c \in DOMAIN before.Choice : before.Choice[c].question = q}

\* A visible question: it exists, pub_date <= now, and it has a choice.
VisibleBefore(q) ==
    /\ q \in DOMAIN before.Question
    /\ before.Question[q].pub_date <= now
    /\ ChoicesBefore(q) # {}

Voted == request.view = "vote"

HasChoiceField == "choice" \in DOMAIN request.POST

\* A non-empty string of the characters 0..9.
DecimalString(s) == Len(s) > 0 /\ \A i \in 1..Len(s) : s[i] \in {str(d) [1] : d \in 0..9}

PositiveIntegerString(s) == DecimalString(s) /\ int(s) > 0

TalliesUnchanged == Tallies(Choice) = Tallies(before.Choice)

RECURSIVE SumOf(_, _)
SumOf(tallies, S) ==
    IF S = {} THEN 0
    ELSE LET c == CHOOSE x \in S : TRUE IN tallies[c] + SumOf(tallies, S \ {c})

Total(table) == SumOf(Tallies(table), DOMAIN table)

\* C1: a vote on a visible question whose body carries the id of one of its
\* choices raises that choice's tally by exactly 1, and is answered 302 with
\* a redirect to the results page of the question.
C1_ValidVoteApplied ==
    \A c \in DOMAIN before.Choice :
        (/\ Voted
         /\ VisibleBefore(request.question_id)
         /\ c \in ChoicesBefore(request.question_id)
         /\ request.POST = PostChoice(str(c)))
        => /\ response.status = 302
           /\ response.location = request.question_id
           /\ c \in DOMAIN Choice
           /\ Choice[c].votes = before.Choice[c].votes + 1

C1_Witness ==
    /\ Voted
    /\ response.status = 302
    /\ VisibleBefore(request.question_id)
    /\ \E c \in ChoicesBefore(request.question_id) :
           /\ request.POST = PostChoice(str(c))
           /\ Choice[c].votes = before.Choice[c].votes + 1

\* C2: a vote on a question that does not exist or is not visible (future
\* pub_date, or no choice) is answered 404 whatever the body holds, and
\* changes no tally.
C2_InvisibleVote404 ==
    (Voted /\ ~VisibleBefore(request.question_id))
        => (response.status = 404 /\ TalliesUnchanged)

\* C3: a vote on a visible question whose body has no choice field, or a
\* choice value that is not a positive integer string, is answered 400 and
\* changes no tally.
C3_MalformedVote400 ==
    (/\ Voted
     /\ VisibleBefore(request.question_id)
     /\ (~HasChoiceField \/ ~PositiveIntegerString(request.POST.choice)))
        => (response.status = 400 /\ TalliesUnchanged)

\* C4: a vote on a visible question whose choice value is a well-formed
\* integer that is not the id of a choice of that question is answered 200
\* with the voting form and an error message, and changes no tally, the
\* tally of a choice of that id under another question included.
C4_UnknownChoiceRedisplay ==
    (/\ Voted
     /\ VisibleBefore(request.question_id)
     /\ HasChoiceField
     /\ DecimalString(request.POST.choice)
     /\ int(request.POST.choice) \notin ChoicesBefore(request.question_id))
        => /\ response.status = 200
           /\ response.template = "polls/detail.html"
           /\ response.question = request.question_id
           /\ response.error_message
           /\ TalliesUnchanged

C4_Witness ==
    /\ Voted
    /\ VisibleBefore(request.question_id)
    /\ response.status = 200
    /\ response.error_message
    /\ HasChoiceField
    /\ DecimalString(request.POST.choice)
    /\ int(request.POST.choice) \in DOMAIN Choice
    /\ Choice[int(request.POST.choice)].question # request.question_id

\* C5: a GET of the detail view or of the results view for id q is answered
\* 200 exactly when question q exists, its pub_date <= now and it has a
\* choice at the time of the request, and 404 otherwise.
C5_DetailResultsIffVisible ==
    request.view \in {"detail", "results"}
        => /\ response.status \in {200, 404}
           /\ response.status = 200 <=> VisibleBefore(request.question_id)

\* A question whose pub_date the time has just reached is viewable.
C5_Witness ==
    /\ request.view \in {"detail", "results"}
    /\ response.status = 200
    /\ now > 0
    /\ Question[request.question_id].pub_date = now

\* C6: every question the list view returns has pub_date <= now and has a
\* choice.
C6_ListedAreVisible ==
    request.view = "index"
        => \A i \in 1..Len(response.latest_question_list) :
               VisibleBefore(response.latest_question_list[i])

\* A question is listed while another one, with a choice, is left out for
\* its future pub_date.
C6_Witness ==
    /\ request.view = "index"
    /\ Len(response.latest_question_list) = 1
    /\ \E q \in DOMAIN Question :
           /\ Question[q].pub_date > now
           /\ choice_set(q) # {}

\* The choice a successful vote selects (0: none).
SelectedChoice ==
    IF Voted /\ response.status = 302 THEN int(request.POST.choice) ELSE 0

\* C9: a request changes nothing of the two tables but the tally of the one
\* choice a vote answered 302 selects: every other row, that choice's text
\* and owner, and the sets of questions and choices stay as they were.
C9_OnlySelectedTallyChanges ==
    ~Idle
        => /\ Question = before.Question
           /\ DOMAIN Choice = DOMAIN before.Choice
           /\ \A c \in DOMAIN Choice :
                  /\ Choice[c].question = before.Choice[c].question
                  /\ Choice[c].choice_text = before.Choice[c].choice_text
                  /\ c # SelectedChoice => Choice[c].votes = before.Choice[c].votes

\* A vote is answered 302 while another choice holds a tally of its own.
C9_Witness ==
    /\ Voted
    /\ response.status = 302
    /\ \E c \in DOMAIN Choice :
           /\ c # SelectedChoice
           /\ Choice[c].votes > 0

\* C10: with requests handled one at a time, no request lowers a tally, and
\* each request raises the sum of all tallies by 1 if it is a vote answered
\* 302 and by 0 otherwise.
C10_SumGrowsBy302 ==
    ~Idle
        => /\ \A c \in DOMAIN before.Choice :
                  c \in DOMAIN Choice /\ Choice[c].votes >= before.Choice[c].votes
           /\ Total(Choice) =
                  Total(before.Choice) + (IF Voted /\ response.status = 302 THEN 1 ELSE 0)

\* A second vote is answered 302 in a run of requests.
C10_Witness ==
    /\ Voted
    /\ response.status = 302
    /\ Total(before.Choice) >= 1
    /\ Total(Choice) = Total(before.Choice) + 1

\* The questions of the table have pairwise distinct pub_dates.
DistinctPubDates ==
    \A p, q \in DOMAIN before.Question :
        p # q => before.Question[p].pub_date # before.Question[q].pub_date

VisibleQuestions == {q \in DOMAIN before.Question : VisibleBefore(q)}

Listed == {response.latest_question_list[i] : i \in 1..Len(response.latest_question_list)}

\* C7: when the pub_dates are distinct, the list view returns min(5, n) of
\* the n visible questions, by pub_date descending, and no visible question
\* it leaves out has a later pub_date than one it lists.
C7_LatestFiveVisible ==
    (request.view = "index" /\ DistinctPubDates)
        => LET lst == response.latest_question_list
               n == Cardinality(VisibleQuestions)
           IN /\ Len(lst) = IF n < 5 THEN n ELSE 5
              /\ Listed \subseteq VisibleQuestions
              /\ \A i, j \in 1..Len(lst) :
                     i < j => before.Question[lst[i]].pub_date > before.Question[lst[j]].pub_date
              /\ \A q \in VisibleQuestions \ Listed : \A p \in Listed :
                     before.Question[q].pub_date < before.Question[p].pub_date

\* More than 5 questions are visible, and questions newer than the newest
\* listed one are left out: one for its future pub_date, one for having no
\* choice.
C7_Witness ==
    /\ request.view = "index"
    /\ DistinctPubDates
    /\ Cardinality(VisibleQuestions) > 5
    /\ Len(response.latest_question_list) = 5
    /\ \E q \in DOMAIN Question : Question[q].pub_date > now
    /\ \E q \in DOMAIN Question :
           /\ Question[q].pub_date <= now
           /\ choice_set(q) = {}
           /\ Question[q].pub_date > Question[response.latest_question_list[1]].pub_date

\* Both clients' votes were answered 302 for the same choice after reading
\* the same tally.
BothReadSameTally ==
    /\ \A r \in Clients : inflight[r].pc = "done" /\ inflight[r].response.status = 302
    /\ inflight[1].choice_id = inflight[2].choice_id
    /\ inflight[1].selected_choice.votes = inflight[2].selected_choice.votes

\* C8: two votes for the same choice that both read the tally before either
\* saves are both answered 302 and leave the tally raised by 1, not by 2.
C8_LostUpdate ==
    BothReadSameTally
        => Choice[inflight[1].choice_id].votes = inflight[1].selected_choice.votes + 1

C8_Witness ==
    /\ BothReadSameTally
    /\ Choice[inflight[1].choice_id].votes = inflight[1].selected_choice.votes + 1

=============================================================================
